---- MODULE Spec2Model ----
(***************************************************************************)
(* A model of Pci.py: the Resource register-access interface over its two *)
(* backing stores (mmap and _PseudoMmap), the construction and unmap of   *)
(* MmapResource, and the Address / Id value types.                        *)
(*                                                                         *)
(* Python integers that can exceed 31 bits (the values handed to write8,  *)
(* write16, write32 and returned by the reads) are kept as pairs          *)
(* [hi, lo] denoting hi * 65536 + lo with lo in 0..65535, so that         *)
(* 0xffffffff and 0x100000000 are representable.  Byte strings are        *)
(* sequences of integers 0..255.  Exceptions are strings naming the       *)
(* exception the code raises; the three kinds of ValueError the Resource  *)
(* raises are told apart by their message: "RangeError" (out of range),   *)
(* "AlignmentError" (not a multiple of), "ValueRangeError" (Value out of  *)
(* range).                                                                 *)
(***************************************************************************)
EXTENDS Integers, Sequences, FiniteSets, TLC

VARIABLES
    kind,        \* Resource: which class the handle is, "mmap" or "pseudo"
    readOnly,    \* Resource: the readOnly flag it was constructed with
    mmapOffset,  \* Resource._mmapOffset
    mmap_,       \* Resource.mmap_: [state, off, len]; state is "unset" (no such
                 \* attribute yet), "live" or "closed" (an mmap object mapping len
                 \* bytes from file offset off), "None", or "file" (a _PseudoMmap)
    file,        \* the backing file's bytes, a function 0..size-1 -> 0..255
    last,        \* the last call: arguments and outcome
    pc,          \* "ready" for a call, "returned" from the call in last, or the
                 \* position inside MmapResource.__init__
    fd,          \* MmapResource.__init__: the descriptor of os.open: "none", "open", "closed"
    exc,         \* MmapResource.__init__: the exception propagating, or "none"
    ctor,        \* MmapResource.__init__: its arguments and the file's size
    releases,    \* how many times a mapping was unmapped (munmap)
    unmaps,      \* how many times unmap was called
    handles,     \* the file objects f_ of the _PseudoMmap handles A and B
    shadow,      \* the bytes written so far by calls that have returned (history)
    obj,         \* the Address or Id just constructed: [cls, domain, bus, slot,
                 \* function, vendor, device]; cls is "none" when there is none
    text         \* str( obj ) as a sequence of characters, <<>> before it is taken

handleVars == <<kind, readOnly, mmapOffset, mmap_>>
mapVars == <<fd, exc, ctor, releases, unmaps>>
psVars == <<handles, shadow>>
idVars == <<obj, text>>
vars == <<handleVars, file, last, pc, mapVars, psVars, idVars>>

(***************************************************************************)
(* Bounds of the model.                                                    *)
(***************************************************************************)
\* mmap.PAGESIZE scaled down: start offsets must be multiples of it
PageSize == 4
\* largest backing file, in bytes
MaxSize == 6

(***************************************************************************)
(* Wide integers.                                                          *)
(***************************************************************************)
W(h, l) == [hi |-> h, lo |-> l]
WLeq(a, b) == a.hi < b.hi \/ (a.hi = b.hi /\ a.lo <= b.lo)

(***************************************************************************)
(* struct.pack / struct.unpack with the formats '<B', '<H', '<L'.          *)
(***************************************************************************)
\* number of bytes of the formats _pci8StructDef, _pci16StructDef, _pci32StructDef
pci8StructDef == 1
pci16StructDef == 2
pci32StructDef == 4

\* byte k (0 = least significant) of a wide integer in 0..0xffffffff
ByteOf(v, k) ==
    CASE k = 0 -> v.lo % 256
      [] k = 1 -> v.lo \div 256
      [] k = 2 -> v.hi % 256
      [] k = 3 -> v.hi \div 256

\* struct.pack(fmt, value) accepts exactly the unsigned values of the width
PackFits(n, v) ==
    CASE n = 1 -> WLeq(W(0, 0), v) /\ WLeq(v, W(0, 255))
      [] n = 2 -> WLeq(W(0, 0), v) /\ WLeq(v, W(0, 65535))
      [] n = 4 -> WLeq(W(0, 0), v) /\ WLeq(v, W(65535, 65535))

\* big-endian packing: the most significant byte first
StructPackBigEndian(n, v) == [k \in 1..n |-> ByteOf(v, n - k)]

\* little-endian: the least significant byte comes first
StructPack(n, v) == [k \in 1..n |-> ByteOf(v, k - 1)]

StructUnpack(n, s) ==
    CASE n = 1 -> W(0, s[1])
      [] n = 2 -> W(0, s[1] + 256 * s[2])
      [] n = 4 -> W(s[3] + 256 * s[4], s[1] + 256 * s[2])

(***************************************************************************)
(* Helpers.                                                                *)
(***************************************************************************)
Min(a, b) == IF a < b THEN a ELSE b
Max(a, b) == IF a > b THEN a ELSE b
Size(f) == Cardinality(DOMAIN f)
\* the value of an absent return value / argument
NoValue == W(0, 0)
\* sys.maxsize, the length _PseudoMmap reports for a file of size 0
SysMaxsize == 2147483647
\* the bytes a fresh backing file holds: byte j is j + 1
InitFile(size) == [j \in 0..(size - 1) |-> j + 1]

\* slice.indices( len ) of the slice a:b, as <<start, stop>>
SliceIndices(a, b, len) ==
    << IF a < 0 THEN Max(a + len, 0) ELSE Min(a, len),
       IF b < 0 THEN Max(b + len, 0) ELSE Min(b, len) >>

(***************************************************************************)
(* The mmap object: index i of the mapping is byte off + i of the file.    *)
(* Each operator yields [result, data, file, touched]: the exception or    *)
(* "ok", the bytes read, the file afterwards and the indices of the        *)
(* mapping it read or wrote.                                               *)
(***************************************************************************)
Outcome(r, d, f, t) == [result |-> r, data |-> d, file |-> f, touched |-> t]

MmapGetItem(f, off, len, i) ==
    LET n == IF i < 0 THEN i + len ELSE i
    IN  IF n < 0 \/ n >= len
        THEN Outcome("IndexError", <<>>, f, {})
        ELSE Outcome("ok", <<f[off + n]>>, f, {n})

MmapGetSlice(f, off, len, a, b) ==
    LET ix == SliceIndices(a, b, len)
        lo == ix[1]
        hi == Max(ix[2], ix[1])
    IN  Outcome("ok", [k \in 1..(hi - lo) |-> f[off + lo + k - 1]], f, lo..(hi - 1))

MmapSetItem(f, off, len, ro, i, s) ==
    LET n == IF i < 0 THEN i + len ELSE i
    IN  IF n < 0 \/ n >= len THEN Outcome("IndexError", <<>>, f, {})
        ELSE IF Len(s) # 1 THEN Outcome("IndexError", <<>>, f, {})
        ELSE IF ro THEN Outcome("TypeError", <<>>, f, {})
        ELSE Outcome("ok", <<>>, [f EXCEPT ![off + n] = s[1]], {n})

MmapSetSlice(f, off, len, ro, a, b, s) ==
    LET ix == SliceIndices(a, b, len)
        lo == ix[1]
        hi == Max(ix[2], ix[1])
    IN  IF Len(s) # hi - lo THEN Outcome("IndexError", <<>>, f, {})
        ELSE IF ro THEN Outcome("TypeError", <<>>, f, {})
        ELSE Outcome("ok", <<>>,
                     [j \in DOMAIN f |-> IF j - off \in lo..(hi - 1)
                                         THEN s[j - off - lo + 1] ELSE f[j]],
                     lo..(hi - 1))

(***************************************************************************)
(* _PseudoMmap over a file object f_ opened unbuffered.                    *)
(***************************************************************************)
\* _PseudoMmap.__len__
PseudoLen(f) == IF Size(f) # 0 THEN Size(f) ELSE SysMaxsize

\* _PseudoMmap._translateIndex: <<start, num>> of the slice a:b, or of the index a
translateIndex(f, isSlice, a, b) ==
    IF isSlice
    THEN LET ix == SliceIndices(a, b, PseudoLen(f)) IN <<ix[1], ix[2] - ix[1]>>
    ELSE <<a, 1>>

\* f_.read( num ) at position start: up to num bytes, all to the end when num < 0
FileRead(f, start, num) ==
    LET end == IF num < 0 THEN Size(f) ELSE Min(start + num, Size(f))
    IN  [k \in 1..(end - start) |-> f[start + k - 1]]

\* f_.write( s ) at position start; a gap before start is filled with zeros
FileWrite(f, start, s) ==
    [j \in 0..(Max(Size(f), start + Len(s)) - 1) |->
        IF j \in start..(start + Len(s) - 1) THEN s[j - start + 1]
        ELSE IF j \in DOMAIN f THEN f[j] ELSE 0]

\* _PseudoMmap.__getitem__: seek( start ), read( num )
PseudoGetItem(f, isSlice, a, b) ==
    LET t == translateIndex(f, isSlice, a, b)
    IN  IF t[1] < 0 THEN Outcome("IOError", <<>>, f, {})
        ELSE LET d == FileRead(f, t[1], t[2])
             IN  Outcome("ok", d, f, t[1]..(t[1] + Len(d) - 1))

\* _PseudoMmap.__setitem__: assert, seek( start ), write( value ), flush().
\* A write that ends past the end of the file either grows the file (a regular
\* file within its size limit) or fails (a fixed-size device file, or the
\* limit reached): the set of outcomes.
PseudoSetItem(f, ro, isSlice, a, b, s) ==
    LET t == translateIndex(f, isSlice, a, b)
    IN  IF Len(s) # t[2] THEN {Outcome("AssertionError", <<>>, f, {})}
        ELSE IF t[1] < 0 THEN {Outcome("IOError", <<>>, f, {})}
        ELSE IF ro THEN {Outcome("IOError", <<>>, f, {})}
        ELSE IF t[1] + t[2] <= Size(f)
        THEN {Outcome("ok", <<>>, FileWrite(f, t[1], s), t[1]..(t[1] + t[2] - 1))}
        ELSE {Outcome("IOError", <<>>, f, {})} \cup
             (IF t[1] + t[2] <= MaxSize
              THEN {Outcome("ok", <<>>, FileWrite(f, t[1], s), t[1]..(t[1] + t[2] - 1))}
              ELSE {})

(***************************************************************************)
(* class Resource.  The operators read the handle's state: kind,           *)
(* readOnly, mmapOffset, mmap_, file.                                      *)
(***************************************************************************)
\* len( self.mmap_ )
StoreLen == IF kind = "mmap" THEN mmap_.len ELSE PseudoLen(file)

\* self.mmap_[ idx ] and self.mmap_[ idx : idx + n ]
GetItem(idx) ==
    IF kind = "mmap" THEN MmapGetItem(file, mmap_.off, mmap_.len, idx)
    ELSE PseudoGetItem(file, FALSE, idx, idx)
GetSlice(idx, n) ==
    IF kind = "mmap" THEN MmapGetSlice(file, mmap_.off, mmap_.len, idx, idx + n)
    ELSE PseudoGetItem(file, TRUE, idx, idx + n)

\* self.mmap_[ idx ] = s and self.mmap_[ idx : idx + n ] = s: the set of outcomes
SetItem(idx, s) ==
    IF kind = "mmap" THEN {MmapSetItem(file, mmap_.off, mmap_.len, readOnly, idx, s)}
    ELSE PseudoSetItem(file, readOnly, FALSE, idx, idx, s)
SetSlice(idx, n, s) ==
    IF kind = "mmap" THEN {MmapSetSlice(file, mmap_.off, mmap_.len, readOnly, idx, idx + n, s)}
    ELSE PseudoSetItem(file, readOnly, TRUE, idx, idx + n, s)

\* checkAddr8 without its lower bound
checkAddr8NoLower(addr) ==
    IF StoreLen # 0 /\ addr >= StoreLen + mmapOffset THEN "RangeError" ELSE "ok"

checkAddr8(addr) ==
    IF addr < mmapOffset \/ (StoreLen # 0 /\ addr >= StoreLen + mmapOffset)
    THEN "RangeError" ELSE "ok"

checkAddr16(addr) ==
    IF addr % 2 # 0 THEN "AlignmentError"
    ELSE IF addr < mmapOffset \/ (StoreLen # 0 /\ addr + 1 >= StoreLen + mmapOffset)
    THEN "RangeError" ELSE "ok"

\* checkAddr32 with the range tested before the alignment
checkAddr32RangeFirst(addr) ==
    IF addr < mmapOffset \/ (StoreLen # 0 /\ addr + 3 >= StoreLen + mmapOffset)
    THEN "RangeError"
    ELSE IF addr % 4 # 0 THEN "AlignmentError" ELSE "ok"

checkAddr32(addr) ==
    IF addr % 4 # 0 THEN "AlignmentError"
    ELSE IF addr < mmapOffset \/ (StoreLen # 0 /\ addr + 3 >= StoreLen + mmapOffset)
    THEN "RangeError" ELSE "ok"

\* what a call leaves behind: the exception or "ok", the value returned,
\* the file afterwards, the indices of the backing store it read or wrote
Failed(e) == [result |-> e, hasRet |-> FALSE, ret |-> NoValue, file |-> file, touched |-> {}]
Returned(n, g) ==
    IF g.result # "ok" THEN Failed(g.result)
    ELSE IF Len(g.data) # n THEN Failed("StructError")
    ELSE [result |-> "ok", hasRet |-> TRUE, ret |-> StructUnpack(n, g.data),
          file |-> file, touched |-> g.touched]
Stored(g) ==
    IF g.result # "ok" THEN Failed(g.result)
    ELSE [result |-> "ok", hasRet |-> FALSE, ret |-> NoValue,
          file |-> g.file, touched |-> g.touched]

\* read8 indexing the backing store with the logical address
read8Untranslated(addr, check) ==
    LET c == IF check THEN checkAddr8(addr) ELSE "ok"
    IN  IF c # "ok" THEN Failed(c)
        ELSE Returned(pci8StructDef, GetItem(addr))

read8(addr, check) ==
    LET c == IF check THEN checkAddr8(addr) ELSE "ok"
    IN  IF c # "ok" THEN Failed(c)
        ELSE Returned(pci8StructDef, GetItem(addr - mmapOffset))

read16(addr, check) ==
    LET c == IF check THEN checkAddr16(addr) ELSE "ok"
    IN  IF c # "ok" THEN Failed(c)
        ELSE Returned(pci16StructDef, GetSlice(addr - mmapOffset, 2))

read32(addr, check) ==
    LET c == IF check THEN checkAddr32(addr) ELSE "ok"
    IN  IF c # "ok" THEN Failed(c)
        ELSE Returned(pci32StructDef, GetSlice(addr - mmapOffset, 4))

\* write8 without the test of the value
write8Unvalidated(addr, value, check) ==
    LET c == IF check THEN checkAddr8(addr) ELSE "ok"
    IN  IF c # "ok" THEN {Failed(c)}
        ELSE IF ~PackFits(pci8StructDef, value) THEN {Failed("StructError")}
        ELSE {Stored(g) : g \in SetItem(addr - mmapOffset,
                                        StructPack(pci8StructDef, value))}

\* the writes yield the set of outcomes of the call
write8(addr, value, check) ==
    LET c == IF check THEN checkAddr8(addr) ELSE "ok"
    IN  IF c # "ok" THEN {Failed(c)}
        ELSE IF check /\ ~(WLeq(W(0, 0), value) /\ WLeq(value, W(0, 255)))
        THEN {Failed("ValueRangeError")}
        ELSE IF ~PackFits(pci8StructDef, value) THEN {Failed("StructError")}
        ELSE {Stored(g) : g \in SetItem(addr - mmapOffset,
                                        StructPack(pci8StructDef, value))}

write16(addr, value, check) ==
    LET c == IF check THEN checkAddr16(addr) ELSE "ok"
    IN  IF c # "ok" THEN {Failed(c)}
        ELSE IF check /\ ~(WLeq(W(0, 0), value) /\ WLeq(value, W(0, 65535)))
        THEN {Failed("ValueRangeError")}
        ELSE IF ~PackFits(pci16StructDef, value) THEN {Failed("StructError")}
        ELSE {Stored(g) : g \in SetSlice(addr - mmapOffset, 2,
                                         StructPack(pci16StructDef, value))}

write32(addr, value, check) ==
    LET c == IF check THEN checkAddr32(addr) ELSE "ok"
    IN  IF c # "ok" THEN {Failed(c)}
        ELSE IF check /\ ~(WLeq(W(0, 0), value) /\ WLeq(value, W(65535, 65535)))
        THEN {Failed("ValueRangeError")}
        ELSE IF ~PackFits(pci32StructDef, value) THEN {Failed("StructError")}
        ELSE {Stored(g) : g \in SetSlice(addr - mmapOffset, 4,
                                         StructPack(pci32StructDef, value))}

(***************************************************************************)
(* MmapResource.__init__, as far as the state of the handle goes.          *)
(* An optional argument is the empty set (None) or a singleton.            *)
(***************************************************************************)
OrDefault(opt, d) == IF opt = {} THEN d ELSE CHOOSE v \in opt : TRUE

\* the start offset and the length handed to mmap.mmap
InitStart(startOffset) == OrDefault(startOffset, 0)
InitLength(size, startOffset, endOffset) ==
    OrDefault(endOffset, size) - InitStart(startOffset)

\* startOffset % mmap.PAGESIZE != 0
Misaligned(startOffset) == InitStart(startOffset) % PageSize # 0

\* mmap.mmap( fd, length, MAP_SHARED, prot, offset ) on a file of the given
\* size that can be mapped: the length of the mapping, or the exception
MmapCall(size, length, offset) ==
    IF length < 0 \/ offset < 0 THEN [result |-> "OverflowError", len |-> 0]
    ELSE IF length = 0
    THEN IF size = 0 \/ offset >= size THEN [result |-> "ValueError", len |-> 0]
         ELSE [result |-> "ok", len |-> size - offset]
    ELSE IF offset + length > size THEN [result |-> "ValueError", len |-> 0]
    ELSE [result |-> "ok", len |-> length]

(***************************************************************************)
(* Specification Spec: a Resource after construction, and its calls.       *)
(***************************************************************************)
StartOffsets == {{}, {0}, {PageSize}}
EndOffsets == {{}, {MaxSize - 1}}
FileSizes == {MaxSize - 1, MaxSize}
Addrs == (0 - 1)..(MaxSize + 1)
Values8 == {W(0, 120), W(0, 256), W(0 - 1, 65535)}
Values16 == {W(0, 22136), W(1, 0)}
Values32 == {W(4660, 22136), W(65536, 0)}

Call(op, addr, value, check, o) ==
    [op |-> op, addr |-> addr, value |-> value, check |-> check,
     result |-> o.result, hasRet |-> o.hasRet, ret |-> o.ret, touched |-> o.touched]

\* the variables of MmapResource.__init__ once construction is over
NoCtor == [size |-> 0, startOffset |-> {}, endOffset |-> {}]
Constructed ==
    /\ fd = "closed"
    /\ exc = "none"
    /\ ctor = NoCtor
    /\ releases = 0
    /\ unmaps = 0

\* no _PseudoMmap handles A and B, no Address and no Id
NoObject == [cls |-> "none", domain |-> 0, bus |-> 0, slot |-> 0, function |-> 0,
             vendor |-> 0, device |-> 0]
NoHandles ==
    /\ handles = <<>>
    /\ shadow = <<>>
    /\ obj = NoObject
    /\ text = <<>>

Init ==
    /\ pc = "ready"
    /\ Constructed
    /\ NoHandles
    /\ \E size \in FileSizes : file = InitFile(size)
    /\ readOnly \in BOOLEAN
    /\ \/ /\ kind = "pseudo"
          /\ mmapOffset = 0
          /\ mmap_ = [state |-> "file", off |-> 0, len |-> 0]
       \/ /\ kind = "mmap"
          /\ \E startOffset \in StartOffsets, endOffset \in EndOffsets :
                LET m == MmapCall(Size(file), InitLength(Size(file), startOffset, endOffset),
                                  InitStart(startOffset))
                IN  /\ ~Misaligned(startOffset)
                    /\ m.result = "ok"
                    /\ mmapOffset = InitStart(startOffset)
                    /\ mmap_ = [state |-> "live", off |-> InitStart(startOffset),
                                len |-> m.len]
    /\ last = Call("none", 0, NoValue, TRUE, Failed("ok"))

Read8 ==
    /\ pc = "ready"
    /\ pc' = "returned"
    /\ \E addr \in Addrs, check \in BOOLEAN :
        LET o == read8(addr, check)
        IN  /\ last' = Call("read8", addr, NoValue, check, o)
            /\ UNCHANGED <<handleVars, file, mapVars, psVars, idVars>>

Read16 ==
    /\ pc = "ready"
    /\ pc' = "returned"
    /\ \E addr \in Addrs, check \in BOOLEAN :
        LET o == read16(addr, check)
        IN  /\ last' = Call("read16", addr, NoValue, check, o)
            /\ UNCHANGED <<handleVars, file, mapVars, psVars, idVars>>

Read32 ==
    /\ pc = "ready"
    /\ pc' = "returned"
    /\ \E addr \in Addrs, check \in BOOLEAN :
        LET o == read32(addr, check)
        IN  /\ last' = Call("read32", addr, NoValue, check, o)
            /\ UNCHANGED <<handleVars, file, mapVars, psVars, idVars>>

Write8 ==
    /\ pc = "ready"
    /\ pc' = "returned"
    /\ \E addr \in Addrs, value \in Values8, check \in BOOLEAN :
        \E o \in write8(addr, value, check) :
            /\ last' = Call("write8", addr, value, check, o)
            /\ file' = o.file
            /\ UNCHANGED <<handleVars, mapVars, psVars, idVars>>

Write16 ==
    /\ pc = "ready"
    /\ pc' = "returned"
    /\ \E addr \in Addrs, value \in Values16, check \in BOOLEAN :
        \E o \in write16(addr, value, check) :
            /\ last' = Call("write16", addr, value, check, o)
            /\ file' = o.file
            /\ UNCHANGED <<handleVars, mapVars, psVars, idVars>>

Write32 ==
    /\ pc = "ready"
    /\ pc' = "returned"
    /\ \E addr \in Addrs, value \in Values32, check \in BOOLEAN :
        \E o \in write32(addr, value, check) :
            /\ last' = Call("write32", addr, value, check, o)
            /\ file' = o.file
            /\ UNCHANGED <<handleVars, mapVars, psVars, idVars>>

\* the caller takes the value or the exception, and goes on to its next call
Return ==
    /\ pc = "returned"
    /\ pc' = "ready"
    /\ last' = Call("none", 0, NoValue, TRUE, Failed("ok"))
    /\ UNCHANGED <<handleVars, file, mapVars, psVars, idVars>>

Next == Return \/ Read8 \/ Read16 \/ Read32 \/ Write8 \/ Write16 \/ Write32

Spec == Init /\ [][Next]_vars

(***************************************************************************)
(* Specification SpecMap: MmapResource.__init__ step by step, then unmap.  *)
(***************************************************************************)
\* largest number of unmap calls in a run
MaxUnmaps == 3

CtorSizes == {0, MaxSize - 1, MaxSize}
CtorStarts == {{}, {0}, {1}, {PageSize}, {0 - PageSize}}
CtorEnds == {{}, {0}, {MaxSize - 1}, {MaxSize + 1}}
\* what the operating system answers to the mmap system call
OsAnswers == {"ok", "EINVAL", "ENOMEM"}

InitMap ==
    /\ pc = "open"
    /\ kind = "mmap"
    /\ readOnly \in BOOLEAN
    /\ mmapOffset = 0
    /\ mmap_ = [state |-> "unset", off |-> 0, len |-> 0]
    /\ \E size \in CtorSizes, startOffset \in CtorStarts, endOffset \in CtorEnds :
          /\ ctor = [size |-> size, startOffset |-> startOffset, endOffset |-> endOffset]
          /\ file = InitFile(size)
    /\ fd = "none"
    /\ exc = "none"
    /\ releases = 0
    /\ unmaps = 0
    /\ NoHandles
    /\ last = Call("none", 0, NoValue, TRUE, Failed("ok"))

\* fd = os.open( path, os.O_RDWR ): outside the try, so a failure leaves at once
MapOpen ==
    /\ pc = "open"
    /\ \/ fd' = "open" /\ pc' = "fstat" /\ exc' = exc
       \/ fd' = fd /\ pc' = "failed" /\ exc' = "OSError"
    /\ UNCHANGED <<handleVars, file, last, ctor, releases, unmaps, psVars, idVars>>

\* size = os.fstat( fd ).st_size
MapFstat ==
    /\ pc = "fstat"
    /\ \/ pc' = "align" /\ exc' = exc
       \/ pc' = "finally" /\ exc' = "OSError"
    /\ UNCHANGED <<handleVars, file, last, fd, ctor, releases, unmaps, psVars, idVars>>

\* the defaults, the length, the test of the alignment, self._mmapOffset = startOffset
MapAlign ==
    /\ pc = "align"
    /\ IF Misaligned(ctor.startOffset)
       THEN /\ exc' = "AlignmentError"
            /\ pc' = "finally"
            /\ mmapOffset' = mmapOffset
       ELSE /\ exc' = exc
            /\ pc' = "mmap"
            /\ mmapOffset' = InitStart(ctor.startOffset)
    /\ UNCHANGED <<kind, readOnly, mmap_, file, last, fd, ctor, releases, unmaps, psVars, idVars>>

\* self.mmap_ = mmap.mmap( ... ), and the except clause around it
MapMmap ==
    /\ pc = "mmap"
    /\ pc' = "finally"
    /\ LET m == MmapCall(ctor.size,
                         InitLength(ctor.size, ctor.startOffset, ctor.endOffset),
                         InitStart(ctor.startOffset))
       IN  IF m.result # "ok"
           THEN exc' = m.result /\ mmap_' = mmap_
           ELSE \E os \in OsAnswers :
                   CASE os = "ok" ->
                          /\ exc' = exc
                          /\ mmap_' = [state |-> "live",
                                       off |-> InitStart(ctor.startOffset),
                                       len |-> m.len]
                     [] os = "EINVAL" ->
                          exc' = "UnsupportedMappingError" /\ mmap_' = mmap_
                     [] os = "ENOMEM" ->
                          exc' = "EnvironmentError" /\ mmap_' = mmap_
    /\ UNCHANGED <<kind, readOnly, mmapOffset, file, last, fd, ctor, releases, unmaps, psVars, idVars>>

\* the finally clause run only when the body raised nothing
MapFinallyOnSuccessOnly ==
    /\ pc = "finally"
    /\ fd' = IF exc = "none" THEN "closed" ELSE fd
    /\ pc' = IF exc = "none" THEN "ready" ELSE "failed"
    /\ UNCHANGED <<handleVars, file, last, exc, ctor, releases, unmaps, psVars, idVars>>

\* finally: os.close( fd ), an OSError of which is swallowed; then the
\* constructor returns, or the exception goes on
MapFinally ==
    /\ pc = "finally"
    /\ fd' = "closed"
    /\ pc' = IF exc = "none" THEN "ready" ELSE "failed"
    /\ UNCHANGED <<handleVars, file, last, exc, ctor, releases, unmaps, psVars, idVars>>

\* the truth value of self.mmap_: None is false, an mmap object is true when
\* its length is not 0, and asking a closed mmap object its length raises
Truth(m) ==
    CASE m.state = "None" -> "False"
      [] m.state = "live" -> IF m.len # 0 THEN "True" ELSE "False"
      [] OTHER -> "ValueError"

\* unmap that closes the mapping and keeps the attribute
unmapKeepsAttribute(m) ==
    CASE Truth(m) = "True" ->
           [result |-> "ok", mmap_ |-> [m EXCEPT !.state = "closed"], released |-> 1]
      [] Truth(m) = "False" -> [result |-> "ok", mmap_ |-> m, released |-> 0]
      [] OTHER -> [result |-> Truth(m), mmap_ |-> m, released |-> 0]

\* MmapResource.unmap on the attribute value m
unmap(m) ==
    CASE Truth(m) = "True" ->
           [result |-> "ok", mmap_ |-> [state |-> "None", off |-> 0, len |-> 0],
            released |-> 1]
      [] Truth(m) = "False" -> [result |-> "ok", mmap_ |-> m, released |-> 0]
      [] OTHER -> [result |-> Truth(m), mmap_ |-> m, released |-> 0]

Unmap ==
    /\ pc = "ready"
    /\ unmaps < MaxUnmaps
    /\ LET u == unmap(mmap_)
       IN  /\ mmap_' = u.mmap_
           /\ releases' = releases + u.released
           /\ last' = Call("unmap", 0, NoValue, TRUE, Failed(u.result))
    /\ unmaps' = unmaps + 1
    /\ UNCHANGED <<kind, readOnly, mmapOffset, file, pc, fd, exc, ctor, psVars, idVars>>

NextMap == MapOpen \/ MapFstat \/ MapAlign \/ MapMmap \/ MapFinally \/ Unmap

SpecMap == InitMap /\ [][NextMap]_vars

(***************************************************************************)
(* Claims about the Resource calls, checked under Spec.                    *)
(***************************************************************************)
Reads == {"read8", "read16", "read32"}
Writes == {"write8", "write16", "write32"}
Width(op) ==
    CASE op \in {"read8", "write8"} -> 1
      [] op \in {"read16", "write16"} -> 2
      [] op \in {"read32", "write32"} -> 4
\* the address check of the call's width
CheckOf(op, addr) ==
    CASE Width(op) = 1 -> checkAddr8(addr)
      [] Width(op) = 2 -> checkAddr16(addr)
      [] Width(op) = 4 -> checkAddr32(addr)
\* 0 <= value <= the largest value of the call's width
ValueFits(op, v) == PackFits(Width(op), v)
\* a checked call has just returned
CheckedCall == pc = "returned" /\ last.op # "none" /\ last.check
\* the steps of the file that differ
Changed(f, g) == IF DOMAIN f # DOMAIN g THEN DOMAIN f \cup DOMAIN g
                 ELSE {j \in DOMAIN f : f[j] # g[j]}

\* C1: with base offset b and length L > 0, every checked call with addr < b
\* or addr + width - 1 >= b + L fails and leaves the backing store unchanged,
\* and every checked call that succeeds reads or writes only indices of the
\* backing store inside 0..L-1 (and changes no byte of the file outside it).
C1_CheckedCallsStayInBounds ==
    [][ CheckedCall' =>
          LET b == mmapOffset
              L == StoreLen
              a == last'.addr
              w == Width(last'.op)
              base == IF kind = "mmap" THEN mmap_.off ELSE 0
          IN  /\ L > 0
              /\ (a < b \/ a + w - 1 >= b + L) =>
                     (last'.result # "ok" /\ file' = file)
              /\ last'.result # "ok" => file' = file
              /\ last'.result = "ok" =>
                     /\ last'.touched \subseteq 0..(L - 1)
                     /\ last'.touched # {}
                     /\ \A j \in Changed(file, file') : (j - base) \in 0..(L - 1)
      ]_vars

\* a checked write below the base offset was refused, and a checked write inside
\* the range was done
C1_Witness ==
    /\ CheckedCall
    /\ last.op = "write16"
    /\ last.result = "ok"
    /\ last.touched = {StoreLen - 2, StoreLen - 1}
    /\ mmapOffset = PageSize

C1_WitnessRefused ==
    /\ CheckedCall
    /\ last.op = "write8"
    /\ last.addr = mmapOffset - 1
    /\ last.result = "RangeError"

\* C2: after a checked write32(a, v) has succeeded, read32(a) returns v and
\* read8(a + k) returns byte k of v, counted from the least significant byte.
C2_LittleEndian ==
    (CheckedCall /\ last.op = "write32" /\ last.result = "ok") =>
        /\ read32(last.addr, TRUE).result = "ok"
        /\ read32(last.addr, TRUE).ret = last.value
        /\ \A k \in 0..3 :
              /\ read8(last.addr + k, TRUE).result = "ok"
              /\ read8(last.addr + k, TRUE).ret
                    = W(0, (CASE k = 0 -> last.value.lo % 256
                              [] k = 1 -> last.value.lo \div 256
                              [] k = 2 -> last.value.hi % 256
                              [] k = 3 -> last.value.hi \div 256))

\* 0x12345678 was written and read8 of its address gives 0x78
C2_Witness ==
    /\ CheckedCall
    /\ last.op = "write32"
    /\ last.result = "ok"
    /\ last.value = W(4660, 22136)
    /\ read8(last.addr, TRUE).ret = W(0, 120)
    /\ read32(last.addr, TRUE).ret = W(4660, 22136)

\* C3: on a direct mapping built with a page-aligned startOffset S, a checked
\* access at logical address addr reads or writes index addr - S of the mapped
\* region, which is byte addr of the file; read8 accepts exactly the addresses
\* S .. S + length - 1, and read8(S) returns byte 0 of the mapped region.
C3_OffsetTranslation ==
    (CheckedCall /\ kind = "mmap") =>
        LET S == mmapOffset
            a == last.addr
            w == Width(last.op)
        IN  /\ S % PageSize = 0
            /\ last.op = "read8" => (last.result = "ok" <=> (S <= a /\ a < S + mmap_.len))
            /\ last.result = "ok" =>
                  /\ S <= a /\ a + w - 1 < S + mmap_.len
                  /\ last.touched = (a - S)..(a - S + w - 1)
                  /\ mmap_.off + (a - S) = a
                  /\ last.op \in Reads =>
                        last.ret = StructUnpack(w, [k \in 1..w |-> file[a + k - 1]])
                  /\ last.op \in Writes =>
                        [k \in 1..w |-> file[a + k - 1]] = StructPack(w, last.value)

\* read8( startOffset ) on a mapping that starts at the second page returned
\* the first byte of that page
C3_Witness ==
    /\ CheckedCall
    /\ kind = "mmap"
    /\ mmapOffset = PageSize
    /\ last.op = "read8"
    /\ last.addr = PageSize
    /\ last.result = "ok"
    /\ last.touched = {0}
    /\ last.ret = W(0, InitFile(MaxSize)[PageSize])

\* C4 as stated: on a resource with base offset 0 and length >= 4, a checked
\* read16 at an odd address fails with AlignmentError and a checked read32 at
\* address length - 1 fails with RangeError.
C4_AsStated ==
    (CheckedCall /\ mmapOffset = 0 /\ StoreLen >= 4) =>
        /\ (last.op = "read16" /\ last.addr % 2 = 1) => last.result = "AlignmentError"
        /\ (last.op = "read32" /\ last.addr = StoreLen - 1) => last.result = "RangeError"

\* C4 as amended: a checked read16 at an odd address fails with AlignmentError;
\* a checked read32 at address length - 1 fails, with RangeError when
\* length - 1 is a multiple of 4 and with AlignmentError when it is not (the
\* alignment is tested first).
C4_ErrorClassification ==
    (CheckedCall /\ mmapOffset = 0 /\ StoreLen >= 4) =>
        /\ (last.op = "read16" /\ last.addr % 2 = 1) => last.result = "AlignmentError"
        /\ (last.op = "read32" /\ last.addr = StoreLen - 1) =>
              last.result = (IF (StoreLen - 1) % 4 = 0 THEN "RangeError"
                             ELSE "AlignmentError")

\* read32 at length - 1 failed with RangeError, which takes a length of 4n + 1
C4_Witness ==
    /\ CheckedCall
    /\ mmapOffset = 0
    /\ StoreLen >= 4
    /\ last.op = "read32"
    /\ last.addr = StoreLen - 1
    /\ last.result = "RangeError"

\* read32 at length - 1 failed with AlignmentError
C4_WitnessUnaligned ==
    /\ CheckedCall
    /\ mmapOffset = 0
    /\ StoreLen >= 4
    /\ last.op = "read32"
    /\ last.addr = StoreLen - 1
    /\ last.result = "AlignmentError"

\* C5 as stated: a checked write whose value lies outside the range of its
\* width fails with ValueRangeError and leaves every byte of the backing store
\* unchanged; a value inside the range at a valid address is accepted.
C5_AsStated ==
    [][ (CheckedCall' /\ last'.op \in Writes) =>
          /\ ~ValueFits(last'.op, last'.value) =>
                (last'.result = "ValueRangeError" /\ file' = file)
          /\ (ValueFits(last'.op, last'.value) /\ CheckOf(last'.op, last'.addr) = "ok") =>
                last'.result \notin {"RangeError", "AlignmentError", "ValueRangeError"}
      ]_vars

\* C5 as amended: a checked write whose value lies outside the range of its
\* width fails and leaves every byte of the backing store unchanged; it fails
\* with ValueRangeError when its address passes the address check, and with
\* the error of the address check otherwise (the address is tested first).  A
\* value inside the range at a valid address is accepted, and written when the
\* resource is writable.
C5_ValueRange ==
    [][ (CheckedCall' /\ last'.op \in Writes) =>
          /\ ~ValueFits(last'.op, last'.value) =>
                /\ file' = file
                /\ last'.result = (IF CheckOf(last'.op, last'.addr) = "ok"
                                   THEN "ValueRangeError"
                                   ELSE CheckOf(last'.op, last'.addr))
          /\ (ValueFits(last'.op, last'.value) /\ CheckOf(last'.op, last'.addr) = "ok") =>
                /\ last'.result \notin {"RangeError", "AlignmentError", "ValueRangeError"}
                /\ ~readOnly => last'.result = "ok"
      ]_vars

\* write8 with the value 0x100 at a valid address failed with ValueRangeError
C5_Witness ==
    /\ CheckedCall
    /\ last.op = "write8"
    /\ last.value = W(0, 256)
    /\ last.addr = mmapOffset
    /\ last.result = "ValueRangeError"

(***************************************************************************)
(* Claims about MmapResource, checked under SpecMap.                       *)
(***************************************************************************)
ConstructionOver == pc \in {"ready", "failed"}

\* C7: on every exit path of MmapResource.__init__ the descriptor that os.open
\* returned is closed when the constructor returns or fails; when it fails no
\* mapping is established; a start offset that is no multiple of the page size
\* fails with AlignmentError and a file that cannot be mapped with
\* UnsupportedMappingError.
C7_NoLeak ==
    ConstructionOver =>
        /\ fd # "open"
        /\ pc = "failed" => (exc # "none" /\ mmap_.state = "unset")
        /\ pc = "ready" => (exc = "none" /\ fd = "closed" /\ mmap_.state # "unset")
        /\ fd = "none" => exc = "OSError"
        /\ Misaligned(ctor.startOffset) => exc \in {"OSError", "AlignmentError"}
        /\ exc = "AlignmentError" => Misaligned(ctor.startOffset)

\* construction failed on a file that cannot be mapped, the descriptor closed
C7_Witness ==
    /\ pc = "failed"
    /\ exc = "UnsupportedMappingError"
    /\ fd = "closed"
    /\ mmap_.state = "unset"

\* C8: after a successful construction every unmap call succeeds, the mapping
\* is released exactly once, by the first call, and from the first call on the
\* handle is empty (mmap_ is None).
C8_UnmapIdempotent ==
    pc = "ready" =>
        /\ unmaps = 0 => (releases = 0 /\ mmap_.state = "live" /\ mmap_.len > 0)
        /\ unmaps >= 1 =>
              /\ releases = 1
              /\ mmap_.state = "None"
              /\ last.op = "unmap"
              /\ last.result = "ok"

\* unmap was called a second time
C8_Witness ==
    /\ pc = "ready"
    /\ unmaps >= 2
    /\ releases = 1
    /\ mmap_.state = "None"
    /\ last.result = "ok"

(***************************************************************************)
(* Specification SpecPseudo: two PseudoMmapResource handles, A and B,      *)
(* opened on the same file, and the __getitem__ / __setitem__ calls of     *)
(* their _PseudoMmap objects.  A file object is [mode, buffering, pos,     *)
(* wbuf, rbuf]: wbuf holds the bytes written and not yet handed to the     *)
(* operating system, rbuf the bytes read ahead; a file object opened with  *)
(* buffering 0 uses neither.                                               *)
(***************************************************************************)
\* size of the file the two handles share
PseudoSize == 3

\* the buffering the commented-out file( path, mode ) call would give
OpenBufferingDefault == 0 - 1

\* the buffering argument of open( path, mode, 0 )
OpenBuffering == 0

\* open( path, readOnly and "rb" or "rb+", 0 )
FileObject(ro) ==
    [mode |-> IF ro THEN "rb" ELSE "rb+", buffering |-> OpenBuffering,
     pos |-> 0, wbuf |-> <<>>, rbuf |-> <<>>]

\* the bytes s placed at positions start, start + 1, ...
Placed(start, s) == [j \in start..(start + Len(s) - 1) |-> s[j - start + 1]]

\* f_.seek( start )
FSeek(h, start) == [h EXCEPT !.pos = start]

\* f_.read( num ): <<file object, bytes>>
FRead(h, f, num) ==
    IF h.buffering = 0
    THEN LET d == FileRead(f, h.pos, num)
         IN  <<[h EXCEPT !.pos = h.pos + Len(d)], d>>
    ELSE LET cache == IF h.rbuf = <<>> THEN f ELSE h.rbuf
             d == FileRead(cache, h.pos, num)
         IN  <<[h EXCEPT !.pos = h.pos + Len(d), !.rbuf = cache], d>>

\* f_.write( s ): <<file object, file>>
FWrite(h, f, s) ==
    IF h.buffering = 0
    THEN <<[h EXCEPT !.pos = h.pos + Len(s)], FileWrite(f, h.pos, s)>>
    ELSE <<[h EXCEPT !.pos = h.pos + Len(s),
                     !.wbuf = Placed(h.pos, s) @@ h.wbuf,
                     !.rbuf = IF h.rbuf = <<>> THEN <<>>
                              ELSE FileWrite(h.rbuf, h.pos, s)], f>>

\* f_.flush(): <<file object, file>>
FFlush(h, f) ==
    <<[h EXCEPT !.wbuf = <<>>],
      [j \in DOMAIN f \cup DOMAIN h.wbuf |->
          IF j \in DOMAIN h.wbuf THEN h.wbuf[j] ELSE f[j]]>>

PsResult(r, h, f, start, num, d) ==
    [result |-> r, h |-> h, file |-> f, start |-> start, num |-> num, data |-> d]

\* _PseudoMmap.__getitem__ on the file object h
getitem(h, f, isSlice, a, b) ==
    LET t == translateIndex(f, isSlice, a, b)
    IN  IF t[1] < 0 THEN PsResult("IOError", h, f, t[1], t[2], <<>>)
        ELSE LET r == FRead(FSeek(h, t[1]), f, t[2])
             IN  PsResult("ok", r[1], f, t[1], t[2], r[2])

\* _PseudoMmap.__setitem__ on the file object h
setitem(h, f, isSlice, a, b, value) ==
    LET t == translateIndex(f, isSlice, a, b)
    IN  IF Len(value) # t[2] THEN PsResult("AssertionError", h, f, t[1], t[2], value)
        ELSE IF t[1] < 0 THEN PsResult("IOError", h, f, t[1], t[2], value)
        ELSE IF h.mode = "rb"
        THEN PsResult("IOError", FSeek(h, t[1]), f, t[1], t[2], value)
        ELSE LET w == FWrite(FSeek(h, t[1]), f, value)
                 fl == FFlush(w[1], w[2])
             IN  PsResult("ok", fl[1], fl[2], t[1], t[2], value)

Handles == {"A", "B"}
PsIndexes == 0..(PseudoSize - 1)
PsValues == {<<170>>, <<187, 204>>}
PsCall(op, who, r) ==
    [op |-> op, h |-> who, start |-> r.start, num |-> r.num, data |-> r.data,
     result |-> r.result]
PsNone == [op |-> "none", h |-> "A", start |-> 0, num |-> 0, data |-> <<>>,
           result |-> "ok"]

InitPseudo ==
    /\ pc = "ready"
    /\ kind = "pseudo"
    /\ readOnly = FALSE
    /\ mmapOffset = 0
    /\ mmap_ = [state |-> "file", off |-> 0, len |-> 0]
    /\ Constructed
    /\ obj = NoObject
    /\ text = <<>>
    /\ file = InitFile(PseudoSize)
    /\ shadow = InitFile(PseudoSize)
    /\ \E roB \in BOOLEAN :
          handles = [who \in Handles |-> FileObject(IF who = "A" THEN FALSE ELSE roB)]
    /\ last = PsNone

PsGetItem ==
    /\ pc = "ready"
    /\ pc' = "returned"
    /\ \E who \in Handles, isSlice \in BOOLEAN, a \in PsIndexes :
          LET r == getitem(handles[who], file, isSlice, a, a + 2)
          IN  /\ handles' = [handles EXCEPT ![who] = r.h]
              /\ last' = PsCall("getitem", who, r)
    /\ UNCHANGED <<handleVars, file, mapVars, shadow, idVars>>

PsSetItem ==
    /\ pc = "ready"
    /\ pc' = "returned"
    /\ \E who \in Handles, isSlice \in BOOLEAN, a \in PsIndexes, value \in PsValues :
          LET r == setitem(handles[who], file, isSlice, a, a + 2, value)
          IN  /\ handles' = [handles EXCEPT ![who] = r.h]
              /\ file' = r.file
              /\ shadow' = IF r.result = "ok" THEN FileWrite(shadow, r.start, value)
                           ELSE shadow
              /\ last' = PsCall("setitem", who, r)
    /\ UNCHANGED <<handleVars, mapVars, idVars>>

\* the caller takes the bytes or the exception, and goes on to its next call
PsReturn ==
    /\ pc = "returned"
    /\ pc' = "ready"
    /\ last' = PsNone
    /\ UNCHANGED <<handleVars, file, mapVars, psVars, idVars>>

NextPseudo == PsGetItem \/ PsSetItem \/ PsReturn

SpecPseudo == InitPseudo /\ [][NextPseudo]_vars

(***************************************************************************)
(* Claim about the emulated backend, checked under SpecPseudo.             *)
(***************************************************************************)
\* C6: once a write through one handle has returned, a later read of the same
\* bytes through the other handle returns the bytes written: the file holds
\* every byte written by the calls that have returned, no file object holds a
\* written byte in a buffer, and a read returns the bytes of the file.
C6_WriteVisible ==
    /\ \A who \in DOMAIN handles : handles[who].wbuf = <<>>
    /\ file = shadow
    /\ (pc = "returned" /\ last.op = "getitem" /\ last.result = "ok") =>
          last.data = FileRead(shadow, last.start, last.num)

\* a read through the read-only handle B returned the two bytes that a write
\* through A had put there
C6_Witness ==
    /\ pc = "returned"
    /\ last.op = "getitem"
    /\ last.h = "B"
    /\ handles["B"].mode = "rb"
    /\ last.result = "ok"
    /\ last.data = <<187, 204>>

(***************************************************************************)
(* Specification SpecId: the Address and Id value types.  A string is a    *)
(* sequence of one-character strings.  A Python value handed to a          *)
(* constructor is [t, n, s, o]: an int n, a str s, None, or an object o    *)
(* with the attributes of an Address or Id.                                *)
(***************************************************************************)
HexChars == <<"0", "1", "2", "3", "4", "5", "6", "7", "8", "9",
              "a", "b", "c", "d", "e", "f">>
LowerHex == {HexChars[i] : i \in 1..16}
\* the characters \w matches, among those the model uses
WordChars == LowerHex \cup {"g"}

PyInt(n) == [t |-> "int", n |-> n, s |-> <<>>, o |-> NoObject]
PyStr(s) == [t |-> "str", n |-> 0, s |-> s, o |-> NoObject]
PyNone == [t |-> "None", n |-> 0, s |-> <<>>, o |-> NoObject]
PyObj(o) == [t |-> "obj", n |-> 0, s |-> <<>>, o |-> o]

\* int( s, 16 ) of a string of lower-case hex digits
HexValue(ch) == CHOOSE i \in 0..15 : HexChars[i + 1] = ch
RECURSIVE HexParseTo(_, _)
HexParseTo(s, k) == IF k = 0 THEN 0 ELSE 16 * HexParseTo(s, k - 1) + HexValue(s[k])
HexParse(s) == HexParseTo(s, Len(s))

\* _hexnum: [result, n]
hexnum(v) ==
    CASE v.t = "int" -> [result |-> "ok", n |-> v.n]
      [] v.t = "str" ->
           IF Len(v.s) > 0 /\ \A i \in 1..Len(v.s) : v.s[i] \in LowerHex
           THEN [result |-> "ok", n |-> HexParse(v.s)]
           ELSE [result |-> "ValueError", n |-> 0]
      [] OTHER -> [result |-> "ok", n |-> 0]

\* the pieces of s between the occurrences of the character sep
FirstIndex(s, sep) ==
    CHOOSE k \in 1..Len(s) : s[k] = sep /\ \A j \in 1..(k - 1) : s[j] # sep
RECURSIVE Split(_, _)
SplitAt(s, sep, i) ==
    <<SubSeq(s, 1, i - 1)>> \o Split(SubSeq(s, i + 1, Len(s)), sep)
Split(s, sep) ==
    IF \A i \in 1..Len(s) : s[i] # sep THEN <<s>>
    ELSE SplitAt(s, sep, FirstIndex(s, sep))

\* \w+
IsWord(s) == Len(s) > 0 /\ \A i \in 1..Len(s) : s[i] \in WordChars

\* re.match( "(?:(?:(\w+):)?(\w+):)?(\w+)(?:\.(\w+))?$", s ): the four groups,
\* or <<>> when there is no match.  Neither ":" nor "." is a \w, so a match
\* cuts s at its colons into one to three parts, and the last part at its dot.
AddressGroups(parts, n, tail) ==
    IF /\ n \in 1..3
       /\ Len(tail) \in 1..2
       /\ \A i \in 1..(n - 1) : IsWord(parts[i])
       /\ \A i \in 1..Len(tail) : IsWord(tail[i])
    THEN << IF n = 3 THEN PyStr(parts[1]) ELSE PyNone,
            IF n >= 2 THEN PyStr(parts[n - 1]) ELSE PyNone,
            PyStr(tail[1]),
            IF Len(tail) = 2 THEN PyStr(tail[2]) ELSE PyNone >>
    ELSE <<>>
AddressParts(parts) == AddressGroups(parts, Len(parts), Split(parts[Len(parts)], "."))
AddressMatch(s) == AddressParts(Split(s, ":"))

\* re.match( "(\w+):(\w+)$", s ): the two groups, or <<>>
IdParts(parts) ==
    IF Len(parts) = 2 /\ IsWord(parts[1]) /\ IsWord(parts[2])
    THEN <<PyStr(parts[1]), PyStr(parts[2])>>
    ELSE <<>>
IdMatch(s) == IdParts(Split(s, ":"))

\* the asserts of Address.__init__ without the one on the slot
AddressAssertsNoSlot(bus, slot, function) ==
    /\ bus >= 0 /\ bus <= 256
    /\ function >= 0 /\ function <= 7

\* the asserts of Address.__init__
AddressAsserts(bus, slot, function) ==
    /\ bus >= 0 /\ bus <= 256
    /\ slot >= 0 /\ slot <= 31
    /\ function >= 0 /\ function <= 7

NewResult(r, o) == [result |-> r, obj |-> o]

\* Address.__init__, the asserts on the fields set
AddressChecked(o) ==
    IF AddressAsserts(o.bus, o.slot, o.function) THEN NewResult("ok", o)
    ELSE NewResult("AssertionError", NoObject)

\* Address.__init__, the fields: the attribute of the first argument if it
\* has it, else the _hexnum of the argument (which is computed in any case)
AddressFields(d, hd, hb, hs, hf) ==
    IF \E h \in {hd, hb, hs, hf} : h.result # "ok" THEN NewResult("ValueError", NoObject)
    ELSE AddressChecked([cls |-> "Address",
                         domain |-> IF d.t = "obj" THEN d.o.domain ELSE hd.n,
                         bus |-> IF d.t = "obj" THEN d.o.bus ELSE hb.n,
                         slot |-> IF d.t = "obj" THEN d.o.slot ELSE hs.n,
                         function |-> IF d.t = "obj" THEN d.o.function ELSE hf.n,
                         vendor |-> 0, device |-> 0])
AddressArgs(d, b, sl, f) == AddressFields(d, hexnum(d), hexnum(b), hexnum(sl), hexnum(f))

\* Address.__init__, the groups of the match: None has no groups()
AddressMatched(m) ==
    IF m = <<>> THEN NewResult("AttributeError", NoObject)
    ELSE AddressArgs(m[1], m[2], m[3], m[4])

\* Address.__init__( domain, bus, slot, function ): re.match raises TypeError
\* on a first argument that is no string, and the arguments stay as given
AddressInit(domain, bus, slot, function) ==
    IF domain.t = "str" THEN AddressMatched(AddressMatch(domain.s))
    ELSE AddressArgs(domain, bus, slot, function)

\* Id.__init__, the fields and the asserts on them
IdChecked(o) ==
    IF ~(o.vendor >= 0 /\ o.vendor <= 65535) THEN NewResult("AssertionError", NoObject)
    ELSE IF ~(o.device >= 0 /\ o.device <= 65535) THEN NewResult("AssertionError", NoObject)
    ELSE NewResult("ok", o)
IdFields(v, hv, hd) ==
    IF hv.result # "ok" \/ hd.result # "ok" THEN NewResult("ValueError", NoObject)
    ELSE IdChecked([cls |-> "Id", domain |-> 0, bus |-> 0, slot |-> 0, function |-> 0,
                    vendor |-> IF v.t = "obj" THEN v.o.vendor ELSE hv.n,
                    device |-> IF v.t = "obj" THEN v.o.device ELSE hd.n])
IdArgs(v, dv) == IdFields(v, hexnum(v), hexnum(dv))
IdMatched(m) ==
    IF m = <<>> THEN NewResult("AttributeError", NoObject) ELSE IdArgs(m[1], m[2])

\* Id.__init__( vendor, device )
IdInit(vendor, device) ==
    IF vendor.t = "str" THEN IdMatched(IdMatch(vendor.s)) ELSE IdArgs(vendor, device)

\* the lower-case hex digits of n >= 0
RECURSIVE HexDigits(_)
HexDigits(n) ==
    IF n < 16 THEN <<HexChars[n + 1]>>
    ELSE HexDigits(n \div 16) \o <<HexChars[(n % 16) + 1]>>

\* s padded on the left with zeros to at least width characters
RECURSIVE ZeroPad(_, _)
ZeroPad(s, width) == IF Len(s) >= width THEN s ELSE ZeroPad(<<"0">> \o s, width)

\* "%0<width>x" % n
FormatHex(n, width) ==
    IF n >= 0 THEN ZeroPad(HexDigits(n), width)
    ELSE <<"-">> \o ZeroPad(HexDigits(0 - n), width - 1)

\* Address.__str__: "%04x:%02x:%02x.%01x"
AddressStr(o) ==
    FormatHex(o.domain, 4) \o <<":">> \o FormatHex(o.bus, 2) \o <<":">>
        \o FormatHex(o.slot, 2) \o <<".">> \o FormatHex(o.function, 1)

\* Id.__str__: "%04x:%04x"
IdStr(o) == FormatHex(o.vendor, 4) \o <<":">> \o FormatHex(o.device, 4)

(***************************************************************************)
(* The inputs.  A component of a string is a text and the number it is     *)
(* meant to be (-1 for a text that is no hex number).                      *)
(***************************************************************************)
Component(txt, val) == [txt |-> txt, val |-> val]
Absent == Component(<<>>, 0)
DomainTexts == {Absent, Component(<<"0", "0", "0", "0">>, 0),
                Component(<<"f", "f", "f", "f">>, 65535)}
BusTexts == {Absent, Component(<<"0", "0">>, 0), Component(<<"f", "f">>, 255),
             Component(<<"1", "0", "0">>, 256), Component(<<"1", "0", "1">>, 257)}
SlotTexts == {Component(<<"0", "0">>, 0), Component(<<"1", "f">>, 31),
              Component(<<"2", "0">>, 32), Component(<<"g">>, 0 - 1)}
FunctionTexts == {Absent, Component(<<"0">>, 0), Component(<<"7">>, 7),
                  Component(<<"8">>, 8)}
\* [[DDDD:]BB:]SS[.F]
Assemble(d, b, sl, f) ==
    (IF d = Absent THEN <<>> ELSE d.txt \o <<":">>)
        \o (IF b = Absent THEN <<>> ELSE b.txt \o <<":">>)
        \o sl.txt
        \o (IF f = Absent THEN <<>> ELSE <<".">> \o f.txt)
\* strings that are no address
Malformed == {<<>>, <<":">>, <<"0", "0", ":">>, <<"0", ".", "0", ".", "0">>,
              <<"1", ":", "2", ":", "3", ":", "4">>, <<"0", ".", "0", ":", "0">>}

DomainInts == {0 - 1, 0, 65535, 65536}
BusInts == {0 - 1, 0, 255, 256, 257}
SlotInts == {0 - 1, 0, 31, 32}
FunctionInts == {0 - 1, 0, 7, 8}
IdInts == {0 - 1, 0, 32902, 65535, 65536}
IdTexts == {Component(<<"8", "0", "8", "6">>, 32902), Component(<<"1", "5", "3", "3">>, 5427),
            Component(<<"0">>, 0), Component(<<"1", "0", "0", "0", "0">>, 65536),
            Component(<<"g">>, 0 - 1)}

\* a constructor call: the form of its input, the field values the input means
\* (valid is FALSE when it means none), and the outcome
NewCall(op, form, valid, d, b, sl, f, r) ==
    [op |-> op, form |-> form, valid |-> valid, domain |-> d, bus |-> b, slot |-> sl,
     function |-> f, result |-> r.result]
IdNone == [op |-> "none", form |-> "none", valid |-> FALSE, domain |-> 0, bus |-> 0,
           slot |-> 0, function |-> 0, result |-> "ok"]

InitId ==
    /\ pc = "ready"
    /\ kind = "none"
    /\ readOnly = FALSE
    /\ mmapOffset = 0
    /\ mmap_ = [state |-> "unset", off |-> 0, len |-> 0]
    /\ file = <<>>
    /\ Constructed
    /\ NoHandles
    /\ last = IdNone

\* Address( domain, bus, slot, function ) with numbers
AddressFromNumbers ==
    /\ pc = "ready"
    /\ \E d \in DomainInts, b \in BusInts, sl \in SlotInts, f \in FunctionInts :
          LET r == AddressInit(PyInt(d), PyInt(b), PyInt(sl), PyInt(f))
          IN  /\ obj' = r.obj
              /\ last' = NewCall("Address", "numbers", TRUE, d, b, sl, f, r)
    /\ pc' = "returned"
    /\ UNCHANGED <<handleVars, file, mapVars, psVars, text>>

\* Address( string )
AddressFromString ==
    /\ pc = "ready"
    /\ \/ \E d \in DomainTexts, b \in BusTexts, sl \in SlotTexts, f \in FunctionTexts :
             /\ (d # Absent => b # Absent)
             /\ LET r == AddressInit(PyStr(Assemble(d, b, sl, f)), PyInt(0), PyInt(0), PyInt(0))
                IN  /\ obj' = r.obj
                    /\ last' = NewCall("Address", "string", sl.val >= 0,
                                       d.val, b.val, sl.val, f.val, r)
       \/ \E str \in Malformed :
             LET r == AddressInit(PyStr(str), PyInt(0), PyInt(0), PyInt(0))
             IN  /\ obj' = r.obj
                 /\ last' = NewCall("Address", "string", FALSE, 0, 0, 0, 0, r)
    /\ pc' = "returned"
    /\ UNCHANGED <<handleVars, file, mapVars, psVars, text>>

\* Address( value ) with a value that has the attributes domain, bus, slot, function
AddressFromValue ==
    /\ pc = "ready"
    /\ \E d \in DomainInts, b \in BusInts, sl \in SlotInts, f \in FunctionInts :
          LET o == [NoObject EXCEPT !.cls = "value", !.domain = d, !.bus = b,
                                    !.slot = sl, !.function = f]
              r == AddressInit(PyObj(o), PyInt(0), PyInt(0), PyInt(0))
          IN  /\ obj' = r.obj
              /\ last' = NewCall("Address", "value", TRUE, d, b, sl, f, r)
    /\ pc' = "returned"
    /\ UNCHANGED <<handleVars, file, mapVars, psVars, text>>

\* Id( vendor, device ), Id( string ), Id( value )
IdFromAny ==
    /\ pc = "ready"
    /\ \/ \E v \in IdInts, dv \in IdInts :
             LET r == IdInit(PyInt(v), PyInt(dv))
             IN  /\ obj' = r.obj
                 /\ last' = NewCall("Id", "numbers", TRUE, v, dv, 0, 0, r)
       \/ \E v \in IdTexts, dv \in IdTexts :
             LET r == IdInit(PyStr(v.txt \o <<":">> \o dv.txt), PyInt(0))
             IN  /\ obj' = r.obj
                 /\ last' = NewCall("Id", "string", v.val >= 0 /\ dv.val >= 0,
                                    v.val, dv.val, 0, 0, r)
       \/ \E v \in IdInts, dv \in IdInts :
             LET o == [NoObject EXCEPT !.cls = "value", !.vendor = v, !.device = dv]
                 r == IdInit(PyObj(o), PyInt(0))
             IN  /\ obj' = r.obj
                 /\ last' = NewCall("Id", "value", TRUE, v, dv, 0, 0, r)
    /\ pc' = "returned"
    /\ UNCHANGED <<handleVars, file, mapVars, psVars, text>>

\* str( obj )
Str ==
    /\ pc = "returned"
    /\ obj.cls # "none"
    /\ text = <<>>
    /\ text' = IF obj.cls = "Address" THEN AddressStr(obj) ELSE IdStr(obj)
    /\ UNCHANGED <<handleVars, file, last, pc, mapVars, psVars, obj>>

\* the caller drops the object, and goes on to its next call
Drop ==
    /\ pc = "returned"
    /\ pc' = "ready"
    /\ obj' = NoObject
    /\ text' = <<>>
    /\ last' = IdNone
    /\ UNCHANGED <<handleVars, file, mapVars, psVars>>

NextId == AddressFromNumbers \/ AddressFromString \/ AddressFromValue \/ IdFromAny
              \/ Str \/ Drop

SpecId == InitId /\ [][NextId]_vars

(***************************************************************************)
(* Claims about Address and Id, checked under SpecId.                      *)
(***************************************************************************)
\* C9: whatever the form of the input (numbers, string, value with the
\* attributes), Address construction succeeds only if bus is in 0..0x100,
\* slot in 0..0x1f and function in 0..7, and fails otherwise without an
\* Address; an Address that exists holds the fields the input means (nothing
\* is clamped), so it satisfies the three bounds.
C9_AddressRanges ==
    (pc = "returned" /\ last.op = "Address") =>
        /\ last.result = "ok" =>
              /\ obj.cls = "Address"
              /\ obj.bus \in 0..256 /\ obj.slot \in 0..31 /\ obj.function \in 0..7
              /\ last.valid
              /\ obj.domain = last.domain /\ obj.bus = last.bus
              /\ obj.slot = last.slot /\ obj.function = last.function
        /\ last.result # "ok" => obj.cls = "none"
        /\ (last.valid /\ last.bus \in 0..256 /\ last.slot \in 0..31
                /\ last.function \in 0..7) => last.result = "ok"
        /\ (last.valid /\ (last.slot = 32 \/ last.function = 8 \/ last.bus = 257)) =>
              last.result = "AssertionError"

\* a string with slot 0x20 was refused
C9_Witness ==
    /\ pc = "returned"
    /\ last.op = "Address"
    /\ last.form = "string"
    /\ last.valid
    /\ last.slot = 32
    /\ last.bus = 255
    /\ last.result = "AssertionError"

\* a string with bus ff, slot 1f and function 7 gave an Address
C9_WitnessAccepted ==
    /\ pc = "returned"
    /\ last.form = "string"
    /\ obj.cls = "Address"
    /\ obj.bus = 255 /\ obj.slot = 31 /\ obj.function = 7 /\ obj.domain = 65535

\* C10 as stated: the string form of every Address that construction accepts
\* is DDDD:BB:SS.F with 4, 2, 2 and 1 lower-case hex digits, and the string
\* form of every Id that construction accepts is VVVV:DDDD with 4 and 4.
C10_CanonicalFormat ==
    (pc = "returned" /\ text # <<>>) =>
        /\ obj.cls = "Address" =>
              /\ Len(text) = 12
              /\ \A i \in {1, 2, 3, 4, 6, 7, 9, 10, 12} : text[i] \in LowerHex
              /\ text[5] = ":" /\ text[8] = ":" /\ text[11] = "."
        /\ obj.cls = "Id" =>
              /\ Len(text) = 9
              /\ \A i \in {1, 2, 3, 4, 6, 7, 8, 9} : text[i] \in LowerHex
              /\ text[5] = ":"

====
